---- MODULE Spec2Model ----
(***************************************************************************)
(* A model of the mr-mime crate (src/src/lib.rs): the MIME value in its    *)
(* two shapes (Repr::Parts, Repr::Buffer), interned/dynamic names, the     *)
(* parser, the accessors and the comparison / hash engine.                *)
(*                                                                         *)
(* Text is a sequence of ASCII codes, so that case folding and character   *)
(* ordering are computed the way the code computes them.  A Rust panic     *)
(* (slice out of range, unwrap of None, index out of bounds) is the        *)
(* outcome Panic.  Offsets are Rust's 0-based byte offsets.                *)
(***************************************************************************)
EXTENDS Integers, Sequences, FiniteSets, TLC

VARIABLES
    value,        \* the value at hand: the outcome of the last parse / new
    source,       \* the text `value` was parsed from (empty when constructed)
    other,        \* a value bound earlier, the right operand of comparisons
    otherSource,  \* the text `other` was parsed from
    out           \* the last operation applied to `value` and its outcome

vars == <<value, source, other, otherSource, out>>

----------------------------------------------------------------------------
(* Bounds of the model. *)

\* longest raw input text handed to parse in SpecParse
RawLen == 4
\* most ";segment" after the head of a written input text in SpecParse
MaxSegments == 2
\* longest parameter list of a constructed value
MaxParams == 1
\* longest extension handed to guess
ExtLen == 3
\* how far below and above MAX_LEN the hashed strings reach
HashSlack == 2
\* longest text a name is constructed from in SpecNames
NameLen == 2
\* longest name of a database in SpecOrder
OrderLen == 3

----------------------------------------------------------------------------
(* Characters the code names. *)

Slash == 47
Plus == 43
Semicolon == 59
EqualsSign == 61
MAX_LEN == 128
StrHashEnd == 255

\* Option<T>
None == [some |-> FALSE]
Some(x) == [some |-> TRUE, val |-> x]

\* outcomes of an operation
Panic == [tag |-> "Panic"]
Ok(x) == [tag |-> "Ok", v |-> x]
Err(e) == [tag |-> "Err", kind |-> e]

\* cmp::Ordering
Less == "Less"
Equal == "Equal"
Greater == "Greater"

IntCmp(x, y) == IF x < y THEN Less ELSE IF x > y THEN Greater ELSE Equal

----------------------------------------------------------------------------
(* str primitives of core used by the crate. *)

\* s[lo..hi] is in range
SliceOk(s, lo, hi) == lo <= hi /\ hi <= Len(s)

\* s[lo..hi]
Slice(s, lo, hi) == SubSeq(s, lo + 1, hi)

\* str::find(char): offset of the first occurrence
Find(s, c) ==
    IF \E i \in 1..Len(s) : s[i] = c
    THEN Some((CHOOSE i \in 1..Len(s) :
                  s[i] = c /\ \A j \in 1..(i - 1) : s[j] # c) - 1)
    ELSE None

\* str::starts_with(&str): byte-exact prefix test
StartsWith(s, p) == Len(p) <= Len(s) /\ SubSeq(s, 1, Len(p)) = p

\* char::to_ascii_lowercase
ToAsciiLowercase(c) == IF c \in 65..90 THEN c + 32 ELSE c

\* str::make_ascii_lowercase
MakeAsciiLowercase(s) == [i \in 1..Len(s) |-> ToAsciiLowercase(s[i])]

\* str::eq_ignore_ascii_case
EqIgnoreAsciiCase(s, t) ==
    Len(s) = Len(t) /\ \A i \in 1..Len(s) : ToAsciiLowercase(s[i]) = ToAsciiLowercase(t[i])

\* char::is_whitespace, on ASCII
IsWhitespace(c) == c \in {9, 10, 11, 12, 13, 32}

\* str::trim
Trim(s) ==
    IF \A i \in 1..Len(s) : IsWhitespace(s[i]) THEN <<>>
    ELSE LET lo == CHOOSE i \in 1..Len(s) :
                      ~IsWhitespace(s[i]) /\ \A j \in 1..(i - 1) : IsWhitespace(s[j])
             hi == CHOOSE i \in 1..Len(s) :
                      ~IsWhitespace(s[i]) /\ \A j \in (i + 1)..Len(s) : IsWhitespace(s[j])
         IN SubSeq(s, lo, hi)

\* str::split(char): every piece between occurrences of c, empty pieces kept
RECURSIVE Split(_, _)
Split(s, c) ==
    LET f == Find(s, c)
    IN IF ~f.some THEN <<s>>
       ELSE <<Slice(s, 0, f.val)>> \o Split(Slice(s, f.val + 1, Len(s)), c)

----------------------------------------------------------------------------
(* The registry (generated segments.rs): per namespace the enumeration of  *)
(* interned spellings, in enumeration order.  from_str is the              *)
(* case-insensitive lookup, as_str the canonical spelling.                 *)

\* "*", "a"
TypeIntern == << <<42>>, <<97>> >>
\* "*", "Ab", "b"
SubtypeIntern == << <<42>>, <<65, 98>>, <<98>> >>
\* "x"
SuffixIntern == << <<120>> >>

Registry(ns) ==
    CASE ns = "type" -> TypeIntern
      [] ns = "subtype" -> SubtypeIntern
      [] ns = "suffix" -> SuffixIntern

\* a registry lookup that tells letter case apart
FromStrExact(ns, s) ==
    IF \E i \in 1..Len(Registry(ns)) : Registry(ns)[i] = s
    THEN Ok(CHOOSE i \in 1..Len(Registry(ns)) : Registry(ns)[i] = s)
    ELSE Err("InvalidName")

\* <Intern as FromStr>::from_str
FromStr(ns, s) ==
    LET reg == Registry(ns)
    IN IF \E i \in 1..Len(reg) : EqIgnoreAsciiCase(reg[i], s)
       THEN Ok(CHOOSE i \in 1..Len(reg) : EqIgnoreAsciiCase(reg[i], s))
       ELSE Err("InvalidName")

\* Intern::as_str
AsStr(ns, id) == Registry(ns)[id]

----------------------------------------------------------------------------
(* Name<'a, Intern> *)

Interned(ns, id) == [name |-> "Interned", ns |-> ns, id |-> id]
Dynamic(ns, s) == [name |-> "Dynamic", ns |-> ns, str |-> s]

\* Name::new
NameNew(ns, s) ==
    LET r == FromStr(ns, s)
    IN IF r.tag = "Ok" THEN Interned(ns, r.v) ELSE Dynamic(ns, s)

\* a rendering of names that folds every letter to lower case
IntoStrFolded(n) ==
    MakeAsciiLowercase(IF n.name = "Interned" THEN AsStr(n.ns, n.id) ELSE n.str)

\* Name::into_str, Name::as_ref
IntoStr(n) == IF n.name = "Interned" THEN AsStr(n.ns, n.id) ELSE n.str

\* impl PartialEq<&str> for Type, Subtype and Suffix
NameEqStr(n, string) == EqIgnoreAsciiCase(IntoStr(n), string)

----------------------------------------------------------------------------
(* Repr and Mime::new *)

Parts(ty, subtype, suffix, parameters) ==
    [repr |-> "Parts", ty |-> ty, subtype |-> subtype, suffix |-> suffix,
     parameters |-> parameters]

Buffer(buffer, slash, plus, semicolon) ==
    [repr |-> "Buffer", buffer |-> buffer, slash |-> slash, plus |-> plus,
     semicolon |-> semicolon]

MimeNew(ty, subtype, suffix, parameters) == Parts(ty, subtype, suffix, parameters)

\* Mime::parse
Parse(src) ==
    LET slashO == Find(src, Slash)
        plus == Find(src, Plus)
        semicolon == Find(src, Semicolon)
    IN IF ~slashO.some THEN Err("NoSlash")
       ELSE LET slash == slashO.val
            IN IF slash = 0 THEN Err("MissingType")
               ELSE IF slash = Len(src) - 1 THEN Err("MissingSubtype")
               ELSE IF semicolon.some
                    THEN Ok(Buffer(src, slash, plus, semicolon.val))
                    ELSE LET end == IF plus.some THEN plus.val ELSE Len(src)
                         IN IF ~SliceOk(src, slash + 1, end) THEN Panic
                            ELSE Ok(Parts(
                                   NameNew("type", Slice(src, 0, slash)),
                                   NameNew("subtype", Slice(src, slash + 1, end)),
                                   IF plus.some
                                   THEN Some(NameNew("suffix",
                                                     Slice(src, plus.val + 1, Len(src))))
                                   ELSE None,
                                   <<>>))

----------------------------------------------------------------------------
(* Accessors.  Each yields Ok(result) or Panic. *)

\* Mime::type_name
TypeName(m) ==
    IF m.repr = "Parts" THEN Ok(m.ty)
    ELSE Ok(Dynamic("type", Slice(m.buffer, 0, m.slash)))

\* Mime::subtype_name
SubtypeName(m) ==
    IF m.repr = "Parts" THEN Ok(m.subtype)
    ELSE LET end == IF m.plus.some THEN m.plus.val ELSE m.semicolon
         IN IF SliceOk(m.buffer, m.slash + 1, end)
            THEN Ok(Dynamic("subtype", Slice(m.buffer, m.slash + 1, end)))
            ELSE Panic

\* Mime::suffix_name
SuffixName(m) ==
    IF m.repr = "Parts" THEN Ok(m.suffix)
    ELSE IF ~m.plus.some THEN Ok(None)
    ELSE IF SliceOk(m.buffer, m.plus.val + 1, m.semicolon)
         THEN Ok(Some(Dynamic("suffix", Slice(m.buffer, m.plus.val + 1, m.semicolon))))
         ELSE Panic

\* the closure of Mime::parameters applied to one segment
SegmentPair(segment) ==
    LET parts == Split(segment, EqualsSign)
    IN IF Len(parts) < 2 THEN Panic
       ELSE Ok(<<Trim(parts[1]), Trim(parts[2])>>)

\* Mime::parameters: the items the iterator yields, in order; an item is
\* computed (and may panic) only when the iterator is advanced to it
Parameters(m) ==
    IF m.repr = "Parts"
    THEN [i \in 1..Len(m.parameters) |-> Ok(m.parameters[i])]
    ELSE LET semicolons == Split(Slice(m.buffer, m.semicolon + 1, Len(m.buffer)),
                                 Semicolon)
         IN [i \in 1..Len(semicolons) |-> SegmentPair(semicolons[i])]

\* the iterator of Mime::parameters run to its end
ParametersAll(m) ==
    LET it == Parameters(m)
    IN IF \E i \in 1..Len(it) : it[i].tag = "Panic" THEN Panic
       ELSE Ok([i \in 1..Len(it) |-> it[i].v])

\* Mime::essence
Essence(m) ==
    IF m.repr = "Parts" THEN Ok(Parts(m.ty, m.subtype, None, <<>>))
    ELSE LET end == IF m.plus.some THEN m.plus.val ELSE m.semicolon
         IN IF SliceOk(m.buffer, m.slash + 1, end)
            THEN Ok(MimeNew(NameNew("type", Slice(m.buffer, 0, m.slash)),
                            NameNew("subtype", Slice(m.buffer, m.slash + 1, end)),
                            None, <<>>))
            ELSE Panic

----------------------------------------------------------------------------
(* Comparison and hash engine. *)

\* an ordering of strings that tells letter case apart
CmpStrExact(a, b) ==
    LET common_len == IF Len(a) < Len(b) THEN Len(a) ELSE Len(b)
        differ == {i \in 1..common_len : a[i] # b[i]}
    IN IF differ # {}
       THEN LET i == CHOOSE i \in differ : \A j \in differ : i <= j
            IN IntCmp(a[i], b[i])
       ELSE IntCmp(Len(a), Len(b))

\* cmp_str_ignore_case
CmpStrIgnoreCase(a, b) ==
    LET common_len == IF Len(a) < Len(b) THEN Len(a) ELSE Len(b)
        differ == {i \in 1..common_len : ToAsciiLowercase(a[i]) # ToAsciiLowercase(b[i])}
    IN IF differ # {}
       THEN LET i == CHOOSE i \in differ : \A j \in differ : i <= j
            IN IntCmp(ToAsciiLowercase(a[i]), ToAsciiLowercase(b[i]))
       ELSE IntCmp(Len(a), Len(b))

\* <str as Ord>::cmp: bytewise, then by length
StrCmp(a, b) ==
    LET common_len == IF Len(a) < Len(b) THEN Len(a) ELSE Len(b)
        differ == {i \in 1..common_len : a[i] # b[i]}
    IN IF differ # {}
       THEN LET i == CHOOSE i \in differ : \A j \in differ : i <= j
            IN IntCmp(a[i], b[i])
       ELSE IntCmp(Len(a), Len(b))

\* a comparison of names that tells letter case apart
NameEqExact(this, that) == IntoStr(this) = IntoStr(that)

\* impl PartialEq for Name
NameEq(this, that) ==
    IF this.name = "Interned" /\ that.name = "Interned" THEN this.id = that.id
    ELSE IF this.name = "Dynamic" /\ that.name = "Interned"
    THEN EqIgnoreAsciiCase(this.str, AsStr(that.ns, that.id))
    ELSE IF this.name = "Interned" /\ that.name = "Dynamic"
    THEN EqIgnoreAsciiCase(that.str, AsStr(this.ns, this.id))
    ELSE EqIgnoreAsciiCase(this.str, that.str)

\* impl Ord for Name: the or-pattern binds s to the Dynamic text and i to the
\* Interned member whichever side each is on
NameCmp(this, that) ==
    IF this.name = "Interned" /\ that.name = "Interned" THEN IntCmp(this.id, that.id)
    ELSE IF this.name = "Dynamic" /\ that.name = "Interned"
    THEN CmpStrIgnoreCase(this.str, AsStr(that.ns, that.id))
    ELSE IF this.name = "Interned" /\ that.name = "Dynamic"
    THEN CmpStrIgnoreCase(that.str, AsStr(this.ns, this.id))
    ELSE CmpStrIgnoreCase(this.str, that.str)

\* derived PartialEq of Option<Name>
OptionNameEq(a, b) ==
    IF a.some /\ b.some THEN NameEq(a.val, b.val) ELSE a.some = b.some

\* derived Ord of Option<Name>: None sorts before Some
OptionNameCmp(a, b) ==
    IF a.some /\ b.some THEN NameCmp(a.val, b.val)
    ELSE IF a.some THEN Greater
    ELSE IF b.some THEN Less
    ELSE Equal

\* cmp_params_ignore_case from the i-th pair on.  Zip::next advances left
\* and then right and stops at the first None; the items advanced over are
\* consumed.  left and right are fused.
RECURSIVE CmpParamsFrom(_, _, _)
CmpParamsFrom(left, right, i) ==
    IF i > Len(left)
    THEN \* zip: left.next() is None.  Then left.next() is None, right.next() is item i
         IF i > Len(right) THEN Ok(Equal)
         ELSE IF right[i].tag = "Panic" THEN Panic
         ELSE Ok(Less)
    ELSE IF left[i].tag = "Panic" THEN Panic
    ELSE IF i > Len(right)
    THEN \* zip: left.next() is item i, right.next() is None.  Then left.next()
         \* is item i + 1
         IF i + 1 > Len(left) THEN Ok(Equal)
         ELSE IF left[i + 1].tag = "Panic" THEN Panic
         ELSE Ok(Greater)
    ELSE IF right[i].tag = "Panic" THEN Panic
    ELSE LET key == CmpStrIgnoreCase(left[i].v[1], right[i].v[1])
             val == StrCmp(left[i].v[2], right[i].v[2])
         IN IF key # Equal THEN Ok(key)
            ELSE IF val # Equal THEN Ok(val)
            ELSE CmpParamsFrom(left, right, i + 1)

\* cmp_params_ignore_case
CmpParamsIgnoreCase(left, right) == CmpParamsFrom(left, right, 1)

\* a combinator that calls its closure whatever the first comparison gave
BoolAndThenEager(this) == TRUE

\* impl Comparison for bool, and_then: the closure is called iff self is true
BoolAndThen(this) == this = TRUE

\* impl PartialEq<Mime> for Mime
MimeEq(self, that) ==
    IF ~NameEq(TypeName(self).v, TypeName(that).v) THEN Ok(FALSE)
    ELSE IF SubtypeName(self).tag = "Panic" \/ SubtypeName(that).tag = "Panic" THEN Panic
    ELSE IF ~NameEq(SubtypeName(self).v, SubtypeName(that).v) THEN Ok(FALSE)
    ELSE IF SuffixName(self).tag = "Panic" \/ SuffixName(that).tag = "Panic" THEN Panic
    ELSE IF ~OptionNameEq(SuffixName(self).v, SuffixName(that).v) THEN Ok(FALSE)
    ELSE LET c == CmpParamsIgnoreCase(Parameters(self), Parameters(that))
         IN IF c.tag = "Panic" THEN Panic ELSE Ok(c.v = Equal)

\* impl Ord for Mime
MimeCmp(self, that) ==
    IF NameCmp(TypeName(self).v, TypeName(that).v) # Equal
    THEN Ok(NameCmp(TypeName(self).v, TypeName(that).v))
    ELSE IF SubtypeName(self).tag = "Panic" \/ SubtypeName(that).tag = "Panic" THEN Panic
    ELSE IF NameCmp(SubtypeName(self).v, SubtypeName(that).v) # Equal
    THEN Ok(NameCmp(SubtypeName(self).v, SubtypeName(that).v))
    ELSE IF SuffixName(self).tag = "Panic" \/ SuffixName(that).tag = "Panic" THEN Panic
    ELSE IF OptionNameCmp(SuffixName(self).v, SuffixName(that).v) # Equal
    THEN Ok(OptionNameCmp(SuffixName(self).v, SuffixName(that).v))
    ELSE CmpParamsIgnoreCase(Parameters(self), Parameters(that))

\* impl PartialOrd for Mime: Some(self.cmp(other))
MimePartialCmp(self, that) ==
    LET c == MimeCmp(self, that)
    IN IF c.tag = "Panic" THEN Panic ELSE Ok(Some(c.v))

\* the crate is built with its default features, which include alloc
FeatureAlloc == TRUE

\* <str as Hash>::hash: the bytes, then the byte 0xff
StrHash(s) == s \o <<StrHashEnd>>

\* a case-folded hash that leaves the fixed buffer one byte early
HashIgnoreCaseEarly(alloc, a) ==
    IF Len(a) >= MAX_LEN
    THEN IF alloc
         THEN [tag |-> "Ok", v |-> StrHash(MakeAsciiLowercase(a)), storage |-> "heap"]
         ELSE Panic
    ELSE [tag |-> "Ok", v |-> StrHash(MakeAsciiLowercase(a)), storage |-> "stack"]

\* hash_ignore_case in a build with (alloc) or without the feature alloc:
\* what it feeds to the hasher, and where the string was folded
HashIgnoreCaseIn(alloc, a) ==
    IF Len(a) > MAX_LEN
    THEN IF alloc
         THEN [tag |-> "Ok", v |-> StrHash(MakeAsciiLowercase(a)), storage |-> "heap"]
         ELSE Panic
    ELSE [tag |-> "Ok", v |-> StrHash(MakeAsciiLowercase(a)), storage |-> "stack"]

\* hash_ignore_case in the default build: what it feeds to the hasher
HashIgnoreCase(a) ==
    IF HashIgnoreCaseIn(FeatureAlloc, a).tag = "Panic" THEN Panic
    ELSE Ok(HashIgnoreCaseIn(FeatureAlloc, a).v)

\* impl Hash for Name
NameHash(n) == HashIgnoreCase(IntoStr(n))

\* derived Hash of Option<Name>: the discriminant, then the name
OptionNameHash(o) ==
    IF ~o.some THEN Ok(<<0>>)
    ELSE IF NameHash(o.val).tag = "Panic" THEN Panic
    ELSE Ok(<<1>> \o NameHash(o.val).v)

\* the loop of impl Hash for Mime over the parameters from the i-th on
RECURSIVE ParamsHashFrom(_, _)
ParamsHashFrom(it, i) ==
    IF i > Len(it) THEN Ok(<<>>)
    ELSE IF it[i].tag = "Panic" THEN Panic
    ELSE LET key == HashIgnoreCase(it[i].v[1])
             rest == ParamsHashFrom(it, i + 1)
         IN IF key.tag = "Panic" \/ rest.tag = "Panic" THEN Panic
            ELSE Ok(key.v \o StrHash(it[i].v[2]) \o rest.v)

\* impl Hash for Mime: everything fed to the hasher, in order
MimeHash(self) ==
    LET ty == NameHash(TypeName(self).v)
    IN IF ty.tag = "Panic" \/ SubtypeName(self).tag = "Panic" THEN Panic
       ELSE LET subtype == NameHash(SubtypeName(self).v)
            IN IF subtype.tag = "Panic" \/ SuffixName(self).tag = "Panic" THEN Panic
               ELSE LET suffix == OptionNameHash(SuffixName(self).v)
                        params == ParamsHashFrom(Parameters(self), 1)
                    IN IF suffix.tag = "Panic" \/ params.tag = "Panic" THEN Panic
                       ELSE Ok(ty.v \o subtype.v \o suffix.v \o params.v)

\* the loop of impl Display for Mime over the parameters from the i-th on
RECURSIVE DisplayParamsFrom(_, _)
DisplayParamsFrom(it, i) ==
    IF i > Len(it) THEN Ok(<<>>)
    ELSE IF it[i].tag = "Panic" THEN Panic
    ELSE LET rest == DisplayParamsFrom(it, i + 1)
         IN IF rest.tag = "Panic" THEN Panic
            ELSE Ok(<<Semicolon>> \o it[i].v[1] \o <<EqualsSign>> \o it[i].v[2] \o rest.v)

\* impl Display for Mime: the text written
Display(self) ==
    IF SubtypeName(self).tag = "Panic" \/ SuffixName(self).tag = "Panic" THEN Panic
    ELSE LET suffix == SuffixName(self).v
             params == DisplayParamsFrom(Parameters(self), 1)
         IN IF params.tag = "Panic" THEN Panic
            ELSE Ok(IntoStr(TypeName(self).v) \o <<Slash>> \o IntoStr(SubtypeName(self).v)
                    \o (IF suffix.some THEN <<Plus>> \o IntoStr(suffix.val) ELSE <<>>)
                    \o params.v)

\* the parameter loop of impl PartialEq<&str> for Mime from the i-th
\* parameter on, `rest` being what is left of the string
RECURSIVE EqStrParamsFrom(_, _, _)
EqStrParamsFrom(it, i, rest) ==
    IF i > Len(it) THEN Ok(TRUE)
    ELSE IF it[i].tag = "Panic" THEN Panic
    ELSE LET key == it[i].v[1]
             val == it[i].v[2]
         IN IF Len(rest) = 0 THEN Panic
            ELSE IF rest[1] # Semicolon THEN Ok(FALSE)
            ELSE LET afterSemi == Slice(rest, 1, Len(rest))
                 IN IF ~EqIgnoreAsciiCase(afterSemi, key) THEN Ok(FALSE)
                    ELSE IF Len(key) >= Len(afterSemi) THEN Panic
                    ELSE IF afterSemi[Len(key) + 1] # EqualsSign THEN Ok(FALSE)
                    ELSE LET afterEq == Slice(afterSemi, Len(key) + 1, Len(afterSemi))
                         IN IF afterEq # val THEN Ok(FALSE)
                            ELSE EqStrParamsFrom(it, i + 1,
                                                 Slice(afterEq, Len(val), Len(afterEq)))

\* impl PartialEq<&str> for Mime
EqStr(self, string) ==
    LET ty == IntoStr(TypeName(self).v)
    IN IF ~StartsWith(string, ty) THEN Ok(FALSE)
       ELSE IF Len(ty) >= Len(string) THEN Panic
       ELSE IF string[Len(ty) + 1] # Slash THEN Ok(FALSE)
       ELSE IF SubtypeName(self).tag = "Panic" THEN Panic
       ELSE LET afterSlash == Slice(string, Len(ty) + 1, Len(string))
                subtype == IntoStr(SubtypeName(self).v)
            IN IF ~StartsWith(afterSlash, subtype) THEN Ok(FALSE)
               ELSE IF SuffixName(self).tag = "Panic" THEN Panic
               ELSE IF SuffixName(self).v.some
               THEN LET suffix == IntoStr(SuffixName(self).v.val)
                    IN IF Len(subtype) >= Len(afterSlash) THEN Panic
                       ELSE IF afterSlash[Len(subtype) + 1] # Plus THEN Ok(FALSE)
                       ELSE LET afterPlus == Slice(afterSlash, Len(subtype) + 1,
                                                   Len(afterSlash))
                            IN IF ~StartsWith(afterPlus, suffix) THEN Ok(FALSE)
                               ELSE EqStrParamsFrom(Parameters(self), 1,
                                        Slice(afterPlus, Len(suffix), Len(afterPlus)))
               ELSE EqStrParamsFrom(Parameters(self), 1,
                        Slice(afterSlash, Len(subtype), Len(afterSlash)))

----------------------------------------------------------------------------
(* The extension table (generated guess_mime_type) and Mime::guess. *)

\* the lines of the MIME database the generator reads, in order: "a/Ab" with
\* the extensions "ax" and "a", "a/b+x" with "ax", "a/*" with "z".  No two
\* extensions of the database differ only in letter case.
MimeTypes ==
    << [ty |-> <<97>>, subtype |-> <<65, 98>>, suffix |-> None,
        extensions |-> << <<97, 120>>, <<97>> >>],
       [ty |-> <<97>>, subtype |-> <<98>>, suffix |-> Some(<<120>>),
        extensions |-> << <<97, 120>> >>],
       [ty |-> <<97>>, subtype |-> <<42>>, suffix |-> None,
        extensions |-> << <<122>> >>] >>

\* char::is_ascii_alphabetic
IsAsciiAlphabetic(c) == c \in 65..90 \/ c \in 97..122

\* the lines guess_function leaves out: a subtype that does not start with
\* a letter, or the suffix "hdr" or "src" (suffixes here are letters only)
Skipped(mime) ==
    \/ mime.subtype = <<>>
    \/ ~IsAsciiAlphabetic(mime.subtype[1])
    \/ /\ mime.suffix.some
       /\ MakeAsciiLowercase(mime.suffix.val) \in {<<104, 100, 114>>, <<115, 114, 99>>}

\* constants::NAME of a database line: Parts of Interned names, no parameters
Constant(mime) ==
    MimeNew(NameNew("type", mime.ty), NameNew("subtype", mime.subtype),
            IF mime.suffix.some THEN Some(NameNew("suffix", mime.suffix.val)) ELSE None,
            <<>>)

\* the keys of the map guess_function builds
GuessKeys ==
    UNION {{MimeTypes[i].extensions[j] : j \in 1..Len(MimeTypes[i].extensions)} :
              i \in {k \in 1..Len(MimeTypes) : ~Skipped(MimeTypes[k])}}

\* the entry of the map under the key ext: the lines that list ext, in the
\* order of the database
GuessEntry(ext) ==
    LET Lists(mime) ==
            ~Skipped(mime) /\ \E j \in 1..Len(mime.extensions) : mime.extensions[j] = ext
        lines == SelectSeq(MimeTypes, Lists)
    IN [i \in 1..Len(lines) |-> Constant(lines[i])]

\* a lookup of the extension table that tells letter case apart
GuessMimeTypeExact(ext) ==
    IF ext \in GuessKeys THEN Some(GuessEntry(ext)) ELSE None

\* segments::guess_mime_type: the case-insensitive graph over the keys
GuessMimeType(ext) ==
    IF \E key \in GuessKeys : EqIgnoreAsciiCase(key, ext)
    THEN Some(GuessEntry(CHOOSE key \in GuessKeys : EqIgnoreAsciiCase(key, ext)))
    ELSE None

\* Mime::guess: the items of the iterator
Guess(extension) ==
    IF GuessMimeType(extension).some THEN GuessMimeType(extension).val ELSE <<>>

----------------------------------------------------------------------------
(* Inputs. *)

\* a A x X z Z
ExtensionAlphabet == {97, 65, 120, 88, 122, 90}

\* every extension over the alphabet of at most ExtLen characters
ExtensionTexts == UNION {[1..n -> ExtensionAlphabet] : n \in 0..ExtLen}

\* a A x / + ; = and the space
Alphabet == {97, 65, 120, 47, 43, 59, 61, 32}

\* every text over the alphabet of at most RawLen characters
RawSources == UNION {[1..n -> Alphabet] : n \in 0..RawLen}

\* "a", "A", "b", "B"
TypeTexts == {<<97>>, <<65>>, <<98>>, <<66>>}
\* "ab", "c"
SubtypeTexts == {<<97, 98>>, <<99>>}
\* "x", "X"
SuffixTexts == {<<120>>, <<88>>}

\* the segments of a parameter list as they may be written:
\* "k=v", " k = v ", "k=v=w", "k=x+y", "k", "", "="
SegmentTexts ==
    {<<107, 61, 118>>, <<32, 107, 32, 61, 32, 118, 32>>, <<107, 61, 118, 61, 119>>,
     <<107, 61, 120, 43, 121>>, <<107>>, <<>>, <<61>>}

\* "t/s" and "t/s+x"
HeadTexts ==
    {t \o <<Slash>> \o s : t \in TypeTexts, s \in SubtypeTexts}
    \cup {t \o <<Slash>> \o s \o <<Plus>> \o x :
            t \in TypeTexts, s \in SubtypeTexts, x \in SuffixTexts}

RECURSIVE TailTexts(_)
TailTexts(n) ==
    IF n = 0 THEN {<<>>}
    ELSE LET shorter == TailTexts(n - 1)
         IN shorter \cup {t \o <<Semicolon>> \o g : t \in shorter, g \in SegmentTexts}

\* "t/s[+x]" followed by at most MaxSegments ";segment"
WrittenSources == {h \o t : h \in HeadTexts, t \in TailTexts(MaxSegments)}

\* the parameter pairs of constructed values: (k, v), (K, v), (k, V)
ParamPairs == {<<<<107>>, <<118>>>>, <<<<75>>, <<118>>>>, <<<<107>>, <<86>>>>}

RECURSIVE ParamLists(_)
ParamLists(n) ==
    IF n = 0 THEN {<<>>}
    ELSE LET shorter == ParamLists(n - 1)
         IN shorter \cup {Append(l, p) : l \in shorter, p \in ParamPairs}

\* the names a caller can hand to Mime::new: Type::new(text), or a constant
TypeNames == {NameNew("type", t) : t \in TypeTexts}
SubtypeNames == {NameNew("subtype", t) : t \in SubtypeTexts}
SuffixOptions == {None} \cup {Some(NameNew("suffix", t)) : t \in SuffixTexts}

\* a Name<Type> of either variant: every member of the table, and every text
\* as a Dynamic name
AnyTypeNames ==
    {Interned("type", id) : id \in 1..Len(TypeIntern)}
    \cup {Dynamic("type", t) : t \in TypeTexts}

\* ";k=v" for every pair of the list
RECURSIVE WrittenParams(_)
WrittenParams(l) ==
    IF l = <<>> THEN <<>>
    ELSE <<Semicolon>> \o Head(l)[1] \o <<EqualsSign>> \o Head(l)[2] \o WrittenParams(Tail(l))

\* "t/s[+x]" followed by ";k=v" for at most MaxParams pairs
PairSources == {h \o WrittenParams(l) : h \in HeadTexts, l \in ParamLists(MaxParams)}

\* texts that parse accepts although an accessor of the value aborts:
\* "a/c;k", "a/c;k=x+y", "a;b/c"
BrokenSources ==
    {<<97, 47, 99, 59, 107>>, <<97, 47, 99, 59, 107, 61, 120, 43, 121>>, <<97, 59, 98, 47, 99>>}

\* parameter pairs whose text holds a '+' or blanks: (k, x+y), ( k, v )
ShapePairs == ParamPairs \cup {<<<<107>>, <<120, 43, 121>>>>, <<<<32, 107>>, <<118, 32>>>>}

RECURSIVE ShapeLists(_)
ShapeLists(n) ==
    IF n = 0 THEN {<<>>}
    ELSE LET shorter == ShapeLists(n - 1)
         IN shorter \cup {Append(l, p) : l \in shorter, p \in ShapePairs}

\* the renderings of the values a caller can construct
DisplayTexts ==
    {Display(MimeNew(ty, subtype, suffix, parameters)).v :
        ty \in TypeNames, subtype \in SubtypeNames, suffix \in SuffixOptions,
        parameters \in ParamLists(MaxParams)}

\* char::to_ascii_uppercase over a text
UpperText(s) == [i \in 1..Len(s) |-> IF s[i] \in 97..122 THEN s[i] - 32 ELSE s[i]]

\* the strings a value is compared with: written and rendered texts, the same
\* in upper case, the same with one more character, and every prefix of those
Texts ==
    LET full == PairSources \cup DisplayTexts
        all == full \cup {UpperText(s) : s \in full} \cup {s \o <<102>> : s \in full}
    IN UNION {{SubSeq(s, 1, n) : n \in 0..Len(s)} : s \in all}

\* the lengths of the strings hashed: short ones and those around MAX_LEN
HashLens == {0, 1} \cup ((MAX_LEN - HashSlack)..(MAX_LEN + HashSlack))

\* a string of n characters: fill, with last as its last character
Filled(n, fill, last) == [i \in 1..n |-> IF i = n THEN last ELSE fill]

\* a A K x - and the blank
HashAlphabet == {97, 65, 75, 120, 45, 32}

\* the strings handed to hash_ignore_case
HashTexts == {Filled(n, fill, last) : n \in HashLens, fill \in HashAlphabet, last \in HashAlphabet}

\* a A b B x *
NameAlphabet == {97, 65, 98, 66, 120, 42}

\* the texts a name is constructed from
NameTexts == UNION {[1..n -> NameAlphabet] : n \in 0..NameLen}

\* the characters of database names: a, B, '-', '.', 1
OrderAlphabet == {97, 66, 45, 46, 49}

\* the names of a database
OrderNames == UNION {[1..n -> OrderAlphabet] : n \in 1..OrderLen}

-----------------------------------------------------------------------------
(* The generator's enumeration of a name registry (write_mime_part). *)

\* char::is_alphanumeric, char::is_uppercase, char::is_lowercase on ASCII
IsAlphanumeric(c) == c \in 48..57 \/ c \in 65..90 \/ c \in 97..122
IsUppercase(c) == c \in 65..90
IsLowercase(c) == c \in 97..122
ToUppercase(c) == IF c \in 97..122 THEN c - 32 ELSE c

\* str::split(|c| !c.is_alphanumeric()): the runs between separators
RECURSIVE SplitNonAlphanumeric(_, _)
SplitNonAlphanumeric(s, run) ==
    IF s = <<>> THEN <<run>>
    ELSE IF IsAlphanumeric(Head(s)) THEN SplitNonAlphanumeric(Tail(s), Append(run, Head(s)))
    ELSE <<run>> \o SplitNonAlphanumeric(Tail(s), <<>>)

\* heck's word boundaries inside one run, scanning from the i-th character:
\* after a lower-case letter followed by an upper-case one, and before the
\* last upper-case letter of a run of them that a lower-case letter follows
RECURSIVE Words(_, _, _, _)
Words(word, i, init, mode) ==
    IF i > Len(word) THEN <<>>
    ELSE IF i = Len(word) THEN <<SubSeq(word, init, Len(word))>>
    ELSE LET c == word[i]
             next == word[i + 1]
             next_mode == IF IsLowercase(c) THEN "Lowercase"
                          ELSE IF IsUppercase(c) THEN "Uppercase" ELSE mode
         IN IF next_mode = "Lowercase" /\ IsUppercase(next)
            THEN <<SubSeq(word, init, i)>> \o Words(word, i + 1, i + 1, "Boundary")
            ELSE IF mode = "Uppercase" /\ IsUppercase(c) /\ IsLowercase(next)
            THEN <<SubSeq(word, init, i - 1)>> \o Words(word, i + 1, i, "Boundary")
            ELSE Words(word, i + 1, init, next_mode)

\* heck's capitalize: the first character in upper case, the rest in lower
Capitalize(word) ==
    [i \in 1..Len(word) |-> IF i = 1 THEN ToUppercase(word[i]) ELSE ToAsciiLowercase(word[i])]

RECURSIVE CapitalizeAll(_)
CapitalizeAll(words) ==
    IF words = <<>> THEN <<>> ELSE Capitalize(Head(words)) \o CapitalizeAll(Tail(words))

RECURSIVE CamelRuns(_)
CamelRuns(runs) ==
    IF runs = <<>> THEN <<>>
    ELSE CapitalizeAll(Words(Head(runs), 1, 1, "Boundary")) \o CamelRuns(Tail(runs))

\* name.to_upper_camel_case(): the identifier of an enumeration member
ToUpperCamelCase(name) == CamelRuns(SplitNonAlphanumeric(name, <<>>))

\* the names the enumeration is made of: those that start with a letter,
\* each with its identifier
Fields(names) ==
    LET kept == SelectSeq(names, LAMBDA name : name # <<>> /\ IsAsciiAlphabetic(name[1]))
    IN [i \in 1..Len(kept) |-> <<kept[i], ToUpperCamelCase(kept[i])>>]

\* types.sort_unstable_by(|a, b| a.1.cmp(&b.1)): every arrangement in the
\* byte order of the identifiers; equal identifiers end in either order
SortUnstableBy(types) ==
    LET n == Len(types)
        orders == {f \in [1..n -> 1..n] : \A i, j \in 1..n : i # j => f[i] # f[j]}
    IN {p \in {[i \in 1..n |-> types[f[i]]] : f \in orders} :
           \A i \in 1..(n - 1) : StrCmp(p[i][2], p[i + 1][2]) # Greater}

\* types.dedup_by(|a, b| a.1 == b.1): of neighbours with one identifier the
\* first stays
RECURSIVE DedupBy(_)
DedupBy(types) ==
    IF Len(types) <= 1 THEN types
    ELSE IF types[1][2] = types[2][2] THEN DedupBy(<<types[1]>> \o Tail(Tail(types)))
    ELSE <<types[1]>> \o DedupBy(Tail(types))

\* the enumerations write_mime_part can write for the names of a database:
\* the spellings in the order of the members, Star first
WriteMimePart(names, has_star) ==
    {(IF has_star THEN <<<<42>>>> ELSE <<>>) \o
        [i \in 1..Len(DedupBy(p)) |-> DedupBy(p)[i][1]] : p \in SortUnstableBy(Fields(names))}

----------------------------------------------------------------------------
(* The operations as steps of a caller. *)

NoValue == [tag |-> "None"]

Init ==
    /\ value = NoValue
    /\ source = <<>>
    /\ other = NoValue
    /\ otherSource = <<>>
    /\ out = [op |-> "init"]

\* let value = Mime::parse(s)
DoParse(s) ==
    /\ value' = Parse(s)
    /\ source' = s
    /\ out' = [op |-> "parse", res |-> Parse(s)]
    /\ UNCHANGED <<other, otherSource>>

ParseRaw == value = NoValue /\ \E s \in RawSources : DoParse(s)

ParseWritten == value = NoValue /\ \E s \in WrittenSources : DoParse(s)

\* value.r#type()
GetType ==
    /\ value.tag = "Ok"
    /\ out' = [op |-> "type", res |-> TypeName(value.v)]
    /\ UNCHANGED <<value, source, other, otherSource>>

\* value.subtype()
GetSubtype ==
    /\ value.tag = "Ok"
    /\ out' = [op |-> "subtype", res |-> SubtypeName(value.v)]
    /\ UNCHANGED <<value, source, other, otherSource>>

\* value.suffix()
GetSuffix ==
    /\ value.tag = "Ok"
    /\ out' = [op |-> "suffix", res |-> SuffixName(value.v)]
    /\ UNCHANGED <<value, source, other, otherSource>>

\* value.parameters(), iterated to the end
GetParameters ==
    /\ value.tag = "Ok"
    /\ out' = [op |-> "parameters", res |-> ParametersAll(value.v)]
    /\ UNCHANGED <<value, source, other, otherSource>>

\* value.essence()
GetEssence ==
    /\ value.tag = "Ok"
    /\ out' = [op |-> "essence", res |-> Essence(value.v)]
    /\ UNCHANGED <<value, source, other, otherSource>>

\* let value = Mime::new(ty, subtype, suffix, parameters)
DoNew(ty, subtype, suffix, parameters) ==
    /\ value' = Ok(MimeNew(ty, subtype, suffix, parameters))
    /\ out' = [op |-> "new", res |-> Ok(MimeNew(ty, subtype, suffix, parameters))]
    /\ source' = <<>>
    /\ UNCHANGED <<other, otherSource>>

BuildNew ==
    /\ value = NoValue
    /\ \E ty \in TypeNames, subtype \in SubtypeNames, suffix \in SuffixOptions,
          parameters \in ParamLists(MaxParams) :
          DoNew(ty, subtype, suffix, parameters)

\* Mime::new with parameter texts that hold a '+' or blanks
BuildShape ==
    /\ value = NoValue
    /\ other = NoValue
    /\ \E ty \in TypeNames, subtype \in SubtypeNames, suffix \in SuffixOptions,
          parameters \in ShapeLists(MaxParams) :
          DoNew(ty, subtype, suffix, parameters)

\* let value = Mime::parse(&other.to_string())
Reparse ==
    /\ value = NoValue
    /\ other.tag = "Ok"
    /\ Display(other.v).tag = "Ok"
    /\ DoParse(Display(other.v).v)

\* value == string, once for each value and string
EqStrStep ==
    /\ value.tag = "Ok"
    /\ out.op \in {"new", "parse"}
    /\ \E string \in Texts :
          out' = [op |-> "eq_str", arg |-> string, res |-> EqStr(value.v, string)]
    /\ UNCHANGED <<value, source, other, otherSource>>

ParsePairs == value = NoValue /\ \E s \in PairSources : DoParse(s)

ParseBroken == value = NoValue /\ \E s \in BrokenSources : DoParse(s)

\* let other = value: the value is kept as the right operand
Keep ==
    /\ value.tag = "Ok"
    /\ other = NoValue
    /\ other' = value
    /\ otherSource' = source
    /\ value' = NoValue
    /\ source' = <<>>
    /\ out' = [op |-> "keep", res |-> value]

\* value == other
EqStep ==
    /\ value.tag = "Ok"
    /\ other.tag = "Ok"
    /\ out' = [op |-> "eq", res |-> MimeEq(value.v, other.v)]
    /\ UNCHANGED <<value, source, other, otherSource>>

\* value.cmp(&other); value.partial_cmp(&other)
CmpStep ==
    /\ value.tag = "Ok"
    /\ other.tag = "Ok"
    /\ out' = [op |-> "cmp", res |-> MimeCmp(value.v, other.v),
               partial |-> MimePartialCmp(value.v, other.v)]
    /\ UNCHANGED <<value, source, other, otherSource>>

\* value.hash(&mut h1); other.hash(&mut h2)
HashStep ==
    /\ value.tag = "Ok"
    /\ other.tag = "Ok"
    /\ out' = [op |-> "hash", res |-> MimeHash(value.v), resOther |-> MimeHash(other.v)]
    /\ UNCHANGED <<value, source, other, otherSource>>

\* left == right for two names of the type table, of either variant
NameEqStep ==
    /\ value = NoValue
    /\ other = NoValue
    /\ \E left \in AnyTypeNames, right \in AnyTypeNames :
          out' = [op |-> "name_eq", left |-> left, right |-> right,
                  res |-> Ok(NameEq(left, right))]
    /\ UNCHANGED <<value, source, other, otherSource>>

NextCmp ==
    \/ BuildNew
    \/ ParsePairs
    \/ ParseBroken
    \/ Keep
    \/ NameEqStep
    \/ EqStep
    \/ CmpStep
    \/ HashStep

\* building two values and comparing them
SpecCmp == Init /\ [][NextCmp]_vars

NextShapes ==
    \/ BuildShape
    \/ Keep
    \/ Reparse
    \/ GetType
    \/ GetSubtype
    \/ GetSuffix
    \/ GetParameters
    \/ EqStep

\* constructing a value, rendering it, parsing the rendering and reading it back
SpecShapes == Init /\ [][NextShapes]_vars

NextText ==
    \/ BuildNew
    \/ ParsePairs
    \/ EqStrStep

\* comparing a value with a plain string
SpecText == Init /\ [][NextText]_vars

\* Mime::guess(extension).collect()
GuessStep ==
    /\ value = NoValue
    /\ \E extension \in ExtensionTexts :
          out' = [op |-> "guess", arg |-> extension, res |-> Ok(Guess(extension))]
    /\ UNCHANGED <<value, source, other, otherSource>>

NextGuess == GuessStep

\* hash_ignore_case(a, &mut state), in a build with or without alloc
HashIgnoreCaseStep ==
    /\ value = NoValue
    /\ \E alloc \in BOOLEAN, a \in HashTexts :
          out' = [op |-> "hash_ignore_case", alloc |-> alloc, arg |-> a,
                  res |-> HashIgnoreCaseIn(alloc, a)]
    /\ UNCHANGED <<value, source, other, otherSource>>

\* Mime::new(Type::new(t), Subtype::new(s), Some(Suffix::new(x)), &[(k, v)])
\* of long texts, hashed in the default build
HashLongStep ==
    /\ value = NoValue
    /\ \E n \in HashLens \ {0}, m \in HashLens \ {0} :
          LET long == MimeNew(NameNew("type", Filled(n, 75, 65)),
                              NameNew("subtype", Filled(m, 75, 65)),
                              Some(NameNew("suffix", Filled(n, 75, 65))),
                              <<<<Filled(m, 75, 65), Filled(n, 75, 65)>>>>)
          IN out' = [op |-> "hash_long", arg |-> long, res |-> MimeHash(long)]
    /\ UNCHANGED <<value, source, other, otherSource>>

\* let n = Type::new(s) (or Subtype, Suffix); n.into_str(); n == s
NameNewStep ==
    /\ value = NoValue
    /\ \E ns \in {"type", "subtype", "suffix"}, s \in NameTexts :
          out' = [op |-> "name_new", ns |-> ns, arg |-> s, res |-> NameNew(ns, s),
                  str |-> IntoStr(NameNew(ns, s)), eq |-> NameEqStr(NameNew(ns, s), s)]
    /\ UNCHANGED <<value, source, other, otherSource>>

NextNames == NameNewStep

\* constructing and rendering names
SpecNames == Init /\ [][NextNames]_vars

\* value == other, one closure at a time: self.type_name() == other.type_name()
EqTypeStep ==
    /\ value.tag = "Ok"
    /\ other.tag = "Ok"
    /\ out.op = "keep" \/ out.op = "new" \/ out.op = "parse"
    /\ out' = [op |-> "eq_type", res |-> Ok(NameEq(TypeName(value.v).v, TypeName(other.v).v))]
    /\ UNCHANGED <<value, source, other, otherSource>>

\* .and_then(|| self.subtype_name() == other.subtype_name())
EqSubtypeStep ==
    /\ out.op = "eq_type"
    /\ out.res.tag = "Ok"
    /\ BoolAndThen(out.res.v)
    /\ out' = [op |-> "eq_subtype",
               res |-> IF SubtypeName(value.v).tag = "Panic" \/ SubtypeName(other.v).tag = "Panic"
                       THEN Panic
                       ELSE Ok(NameEq(SubtypeName(value.v).v, SubtypeName(other.v).v))]
    /\ UNCHANGED <<value, source, other, otherSource>>

\* .and_then(|| self.suffix_name() == other.suffix_name())
EqSuffixStep ==
    /\ out.op = "eq_subtype"
    /\ out.res.tag = "Ok"
    /\ BoolAndThen(out.res.v)
    /\ out' = [op |-> "eq_suffix",
               res |-> IF SuffixName(value.v).tag = "Panic" \/ SuffixName(other.v).tag = "Panic"
                       THEN Panic
                       ELSE Ok(OptionNameEq(SuffixName(value.v).v, SuffixName(other.v).v))]
    /\ UNCHANGED <<value, source, other, otherSource>>

\* .and_then(|| cmp_params_ignore_case(..) == cmp::Ordering::Equal)
EqParamsStep ==
    /\ out.op = "eq_suffix"
    /\ out.res.tag = "Ok"
    /\ BoolAndThen(out.res.v)
    /\ out' = [op |-> "eq_params",
               res |-> LET c == CmpParamsIgnoreCase(Parameters(value.v), Parameters(other.v))
                       IN IF c.tag = "Panic" THEN Panic ELSE Ok(c.v = Equal)]
    /\ UNCHANGED <<value, source, other, otherSource>>

NextEq ==
    \/ BuildNew
    \/ ParsePairs
    \/ Keep
    \/ EqTypeStep
    \/ EqSubtypeStep
    \/ EqSuffixStep
    \/ EqParamsStep

\* value equality, closure by closure
SpecEq == Init /\ [][NextEq]_vars

NextHash ==
    \/ HashIgnoreCaseStep
    \/ HashLongStep

\* hashing strings and values around the 128-byte boundary
SpecHash == Init /\ [][NextHash]_vars

\* guessing the MIME types of an extension
SpecGuess == Init /\ [][NextGuess]_vars

NextParse ==
    \/ ParseRaw
    \/ ParseWritten
    \/ GetType
    \/ GetSubtype
    \/ GetSuffix
    \/ GetParameters
    \/ GetEssence

\* parsing a text and reading the value back
SpecParse == Init /\ [][NextParse]_vars

\* write_mime_part over a database of two lines
WriteMimePartStep ==
    /\ out.op = "init"
    /\ \E a \in OrderNames, b \in OrderNames, has_star \in BOOLEAN :
          \E members \in WriteMimePart(<<a, b>>, has_star) :
             out' = [op |-> "write_mime_part", arg |-> <<a, b>>, res |-> members]
    /\ UNCHANGED <<value, source, other, otherSource>>

\* two members compared as Interned names and, spelled out, as Dynamic names
NameCmpStep ==
    /\ out.op = "write_mime_part"
    /\ \E i \in 1..Len(out.res), j \in 1..Len(out.res) :
          out' = [op |-> "name_cmp", members |-> out.res, left |-> i, right |-> j,
                  res |-> NameCmp(Interned("subtype", i), Interned("subtype", j)),
                  resOther |-> NameCmp(Dynamic("subtype", out.res[i]),
                                       Dynamic("subtype", out.res[j]))]
    /\ UNCHANGED <<value, source, other, otherSource>>

NextOrder ==
    \/ WriteMimePartStep
    \/ NameCmpStep

\* generating a registry and ordering its members
SpecOrder == Init /\ [][NextOrder]_vars

----------------------------------------------------------------------------
(* Claims *)

\* the character c occurs in s
Has(s, c) == \E i \in 1..Len(s) : s[i] = c
\* the 1-based position of the first c in s
First(s, c) == CHOOSE i \in 1..Len(s) : s[i] = c /\ \A j \in 1..(i - 1) : s[j] # c

\* C1: for every input, parse returns NoSlash when the input has no '/',
\* otherwise MissingType when the first '/' is at index 0, otherwise
\* MissingSubtype when the first '/' is the final character, and otherwise
\* it succeeds; no other error kind is returned.
C1_ParseChecksInOrder ==
    out.op = "parse" =>
        IF ~Has(source, Slash)
        THEN out.res.tag = "Err" /\ out.res.kind = "NoSlash"
        ELSE IF First(source, Slash) = 1
        THEN out.res.tag = "Err" /\ out.res.kind = "MissingType"
        ELSE IF First(source, Slash) = Len(source)
        THEN out.res.tag = "Err" /\ out.res.kind = "MissingSubtype"
        ELSE out.res.tag = "Ok"

\* the text "t/s" of a source "t/s[+x][;params]"
TypeSlashSubtype(src) ==
    LET stops == {i \in 1..Len(src) : src[i] \in {Plus, Semicolon}}
    IN IF stops = {} THEN src
       ELSE SubSeq(src, 1, (CHOOSE i \in stops : \A j \in stops : i <= j) - 1)

\* src reads "t/s[+x][;params]" with t and s non-empty and free of '+', ';'
WellFormed(src) ==
    /\ Has(src, Slash)
    /\ Parse(TypeSlashSubtype(src)).tag = "Ok"
    /\ Has(TypeSlashSubtype(src), Slash)

\* the text of a Deferred value after its first ';', cut at every ';'
SegmentsOf(src) == Split(SubSeq(src, First(src, Semicolon) + 1, Len(src)), Semicolon)

\* a segment cut once, at its first '=', and trimmed
CutOnce(segment) ==
    LET e == First(segment, EqualsSign)
    IN <<Trim(SubSeq(segment, 1, e - 1)), Trim(SubSeq(segment, e + 1, Len(segment)))>>

\* C6: parameters() of a Deferred value yields, for each ';'-separated
\* segment after the first ';' and in order, the trimmed text before the
\* segment's first '=' and the trimmed text of everything after it.
C6_ParametersSplitOnce ==
    (/\ out.op = "parameters"
     /\ value.v.repr = "Buffer"
     /\ WellFormed(source)
     /\ \A i \in 1..Len(SegmentsOf(source)) : Has(SegmentsOf(source)[i], EqualsSign))
    => /\ out.res.tag = "Ok"
       /\ out.res.v = [i \in 1..Len(SegmentsOf(source)) |-> CutOnce(SegmentsOf(source)[i])]

\* C7: essence() is a Resolved value with the type and subtype of the
\* original, no suffix and no parameters; for a parsed "t/s[+x][;params]"
\* it equals parse("t/s").
C7_EssenceIsTypeAndSubtype ==
    (out.op = "essence" /\ WellFormed(source))
    => /\ out.res.tag = "Ok"
       /\ out.res.v.repr = "Parts"
       /\ out.res.v.suffix = None
       /\ out.res.v.parameters = <<>>
       /\ SubtypeName(value.v).tag = "Ok"
       /\ NameEq(out.res.v.ty, TypeName(value.v).v)
       /\ NameEq(out.res.v.subtype, SubtypeName(value.v).v)
       /\ MimeEq(out.res.v, Parse(TypeSlashSubtype(source)).v) = Ok(TRUE)

\* a letter folded to upper case, any other character kept
Fold(c) == IF c \in 97..122 THEN c - 32 ELSE c

\* s and t differ at most in the case of ASCII letters
SameLetters(s, t) == Len(s) = Len(t) /\ \A i \in 1..Len(s) : Fold(s[i]) = Fold(t[i])

\* v was parsed from a text without ';' or constructed without parameters
ParameterFree(v, src) ==
    ~Has(src, Semicolon) /\ v.v.repr = "Parts" /\ v.v.parameters = <<>>

\* the text v spells: its source when parsed, its rendering when constructed
Spelling(v, src) == IF src # <<>> THEN src ELSE Display(v.v).v

\* C2: two parameter-free values whose spellings differ only in ASCII letter
\* case are equal, whether parsed or built from interned constants; and two
\* type names that spell the same text in different case are equal also when
\* one is Interned and the other Dynamic.
C2_EqualIgnoringCase ==
    /\ (/\ out.op = "eq"
        /\ ParameterFree(value, source)
        /\ ParameterFree(other, otherSource)
        /\ SameLetters(Spelling(value, source), Spelling(other, otherSource)))
       => out.res = Ok(TRUE)
    /\ (/\ out.op = "name_eq"
        /\ SameLetters(IntoStr(out.left), IntoStr(out.right)))
       => out.res = Ok(TRUE)

\* a parsed mixed-case text found equal to the value built from the interned
\* constants it spells
C2_Witness ==
    /\ out.op = "eq"
    /\ out.res = Ok(TRUE)
    /\ ParameterFree(value, source)
    /\ ParameterFree(other, otherSource)
    /\ source # <<>>
    /\ otherSource = <<>>
    /\ other.v.ty.name = "Interned"
    /\ other.v.subtype.name = "Interned"
    /\ other.v.suffix.some
    /\ source # Display(other.v).v

\* an Interned and a Dynamic name of different case found equal
C2_WitnessNames ==
    /\ out.op = "name_eq"
    /\ out.res = Ok(TRUE)
    /\ out.left.name = "Interned"
    /\ out.right.name = "Dynamic"
    /\ IntoStr(out.left) # IntoStr(out.right)

\* C3: a == b implies that hashing a and hashing b feed the same data to
\* the hasher.
C3_HashConsistentWithEq ==
    (out.op = "hash" /\ MimeEq(value.v, other.v) = Ok(TRUE))
    => (out.res.tag = "Ok" /\ out.res = out.resOther)

Reverse(o) == IF o = Less THEN Greater ELSE IF o = Greater THEN Less ELSE Equal

\* C4: cmp(a, b) is the reverse of cmp(b, a), for every mix of Interned and
\* Dynamic names (stated here for values without parameters).
C4_CmpAntisymmetric ==
    (/\ out.op = "cmp"
     /\ ParameterFree(value, source)
     /\ ParameterFree(other, otherSource))
    => /\ out.res.tag = "Ok"
       /\ MimeCmp(other.v, value.v) = Ok(Reverse(out.res.v))

\* no key or value of the list starts or ends with a blank
NoOuterBlanks(l) == \A i \in 1..Len(l) : Trim(l[i][1]) = l[i][1] /\ Trim(l[i][2]) = l[i][2]

\* C5: the Deferred value parsed from "t/s[+x];k1=v1;..." and the Resolved
\* value constructed from (t, s, x, P), P non-empty, return equal results
\* from type, subtype, suffix and parameters (stated here for keys and values
\* without outer blanks).
C5_ShapesAgree ==
    (/\ other.tag = "Ok"
     /\ other.v.parameters # <<>>
     /\ NoOuterBlanks(other.v.parameters)
     /\ value.tag = "Ok"
     /\ source = Display(other.v).v)
    => /\ value.v.repr = "Buffer"
       /\ out.op = "type" => (out.res.tag = "Ok" /\ NameEq(out.res.v, other.v.ty))
       /\ out.op = "subtype" => (out.res.tag = "Ok" /\ NameEq(out.res.v, other.v.subtype))
       /\ out.op = "suffix" => (out.res.tag = "Ok" /\ OptionNameEq(out.res.v, other.v.suffix))
       /\ out.op = "parameters" => out.res = Ok(other.v.parameters)

\* C8: a parameter-free value equals every string that spells its
\* "type/subtype[+suffix]" in any ASCII letter case.
C8_EqStrIgnoresCase ==
    (/\ out.op = "eq_str"
     /\ ParameterFree(value, source)
     /\ SameLetters(out.arg, Display(value.v).v))
    => out.res = Ok(TRUE)

\* C9: a string made of the full text of a value followed by at least one
\* more character is reported not equal.
C9_EqStrRejectsTrailingText ==
    (/\ out.op = "eq_str"
     /\ Display(value.v).tag = "Ok"
     /\ Len(out.arg) > Len(Display(value.v).v)
     /\ StartsWith(out.arg, Display(value.v).v))
    => out.res = Ok(FALSE)

\* the parameters of v, all of them well formed and at least one
HasParameters(v) == ParametersAll(v).tag = "Ok" /\ ParametersAll(v).v # <<>>

\* C10: a value with at least one parameter equals the string
\* "type/subtype[+suffix];k1=v1;...;kn=vn" that spells its own components,
\* and does not equal a string that differs from it in the case of a value.
C10_EqStrWithParameters ==
    (/\ out.op = "eq_str"
     /\ HasParameters(value.v)
     /\ Display(value.v).tag = "Ok")
    => /\ out.arg = Display(value.v).v => out.res = Ok(TRUE)
       /\ (/\ out.arg # Display(value.v).v
           /\ SameLetters(out.arg, Display(value.v).v)
           /\ \E i \in 1..Len(out.arg) :
                 /\ out.arg[i] # Display(value.v).v[i]
                 /\ \E j \in 1..(i - 1) : out.arg[j] = EqualsSign)
          => out.res = Ok(FALSE)

\* a and b have equal type, subtype and suffix and well formed parameters
SameHead(a, b) ==
    /\ SubtypeName(a).tag = "Ok" /\ SubtypeName(b).tag = "Ok"
    /\ SuffixName(a).tag = "Ok" /\ SuffixName(b).tag = "Ok"
    /\ ParametersAll(a).tag = "Ok" /\ ParametersAll(b).tag = "Ok"
    /\ NameEq(TypeName(a).v, TypeName(b).v)
    /\ NameEq(SubtypeName(a).v, SubtypeName(b).v)
    /\ OptionNameEq(SuffixName(a).v, SuffixName(b).v)

\* the pairs p and q match: keys ignoring ASCII case, values exactly
PairMatches(p, q) == SameLetters(p[1], q[1]) /\ p[2] = q[2]

\* the first n pairs of k and l match
SharedPairsTie(k, l, n) == \A i \in 1..n : PairMatches(k[i], l[i])

\* C11: two values with equal type, subtype and suffix are equal iff their
\* parameter sequences have the same length and every pair matches (key
\* ignoring ASCII case, value exactly); if all shared pairs tie, the value
\* with more parameters is unequal to and sorts greater than the other.
C11_ParametersComparedPairwise ==
    LET k == ParametersAll(value.v).v
        l == ParametersAll(other.v).v
    IN /\ (out.op = "eq" /\ SameHead(value.v, other.v))
          => out.res = Ok(Len(k) = Len(l) /\ SharedPairsTie(k, l, Len(k)))
       /\ (/\ out.op = "cmp"
           /\ SameHead(value.v, other.v)
           /\ Len(k) > Len(l)
           /\ SharedPairsTie(k, l, Len(l)))
          => out.res = Ok(Greater)

\* C12: for every input, parse returns either a value or one of the three
\* parse errors; it never aborts.
C12_ParseIsTotal ==
    out.op = "parse"
    => \/ out.res.tag = "Ok"
       \/ out.res.tag = "Err" /\ out.res.kind \in {"NoSlash", "MissingType", "MissingSubtype"}

\* the positions of the '+' of src at or after its first '/'
PlusAfterSlash(src) == {i \in First(src, Slash)..Len(src) : src[i] = Plus}

\* the least member of a non-empty set of positions
Least(S) == CHOOSE i \in S : \A j \in S : i <= j

\* C13: the suffix separator parse uses is the first '+' at or after the
\* first '/'; a '+' before the first '/' belongs to the type, so a text
\* without ';' whose first '/' is neither first nor last parses to the type
\* before the '/', the subtype up to that separator and the suffix after it.
C13_SuffixSeparatorAfterSlash ==
    (/\ out.op = "parse"
     /\ Has(source, Slash)
     /\ ~Has(source, Semicolon)
     /\ First(source, Slash) \notin {1, Len(source)})
    => LET slash == First(source, Slash)
           seps == PlusAfterSlash(source)
           end == IF seps = {} THEN Len(source) + 1 ELSE Least(seps)
       IN /\ out.res.tag = "Ok"
          /\ IntoStr(TypeName(out.res.v).v) = IntoStr(NameNew("type", SubSeq(source, 1, slash - 1)))
          /\ IntoStr(SubtypeName(out.res.v).v)
                = IntoStr(NameNew("subtype", SubSeq(source, slash + 1, end - 1)))
          /\ IF seps = {} THEN SuffixName(out.res.v).v = None
             ELSE /\ SuffixName(out.res.v).v.some
                  /\ IntoStr(SuffixName(out.res.v).v.val)
                        = IntoStr(NameNew("suffix", SubSeq(source, end + 1, Len(source))))

\* C14: for every Resolved value v, parsing the Display text of v succeeds
\* and yields a value equal to v (stated here for parameter keys and values
\* without outer blanks).
C14_RenderParseRoundTrip ==
    (/\ other.tag = "Ok"
     /\ other.v.repr = "Parts"
     /\ NoOuterBlanks(other.v.parameters)
     /\ Display(other.v).tag = "Ok"
     /\ source = Display(other.v).v)
    => /\ out.op = "parse" => out.res.tag = "Ok"
       /\ out.op = "eq" => out.res = Ok(TRUE)

\* src has exactly one '/' and no '+' or ';'
OneSlashOnly(src) ==
    /\ Cardinality({i \in 1..Len(src) : src[i] = Slash}) = 1
    /\ ~Has(src, Plus)
    /\ ~Has(src, Semicolon)

\* the text before and the text after the first '/'
Before(src) == SubSeq(src, 1, First(src, Slash) - 1)
After(src) == SubSeq(src, First(src, Slash) + 1, Len(src))

\* the text is no registry spelling in any case, or it is the canonical one
RendersVerbatim(ns, text) ==
    FromStr(ns, text).tag = "Err" \/ AsStr(ns, FromStr(ns, text).v) = text

\* C15 as stated: for any string with exactly one '/' and no '+' or ';',
\* parsing succeeds and the rendered type and subtype are exactly the text
\* before and the text after the slash (read here for two non-empty halves).
C15_HalvesExact ==
    (OneSlashOnly(source) /\ Before(source) # <<>> /\ After(source) # <<>>)
    => /\ out.op = "parse" => out.res.tag = "Ok"
       /\ out.op = "type" => IntoStr(out.res.v) = Before(source)
       /\ out.op = "subtype" => IntoStr(out.res.v) = After(source)

\* C15 amended: for any string with exactly one '/', neither its first nor
\* its last character, and no '+' or ';', parsing succeeds and the rendered
\* type and subtype equal the two halves ignoring ASCII case; they are the
\* halves character for character unless the half is a case variant of a
\* registry spelling, which renders as the canonical spelling.
C15_HalvesUpToInterning ==
    (OneSlashOnly(source) /\ Before(source) # <<>> /\ After(source) # <<>>)
    => /\ out.op = "parse" => out.res.tag = "Ok"
       /\ out.op = "type"
          => /\ out.res.tag = "Ok"
             /\ SameLetters(IntoStr(out.res.v), Before(source))
             /\ RendersVerbatim("type", Before(source))
                => IntoStr(out.res.v) = Before(source)
             /\ ~RendersVerbatim("type", Before(source))
                => IntoStr(out.res.v) = AsStr("type", FromStr("type", Before(source)).v)
       /\ out.op = "subtype"
          => /\ out.res.tag = "Ok"
             /\ SameLetters(IntoStr(out.res.v), After(source))
             /\ RendersVerbatim("subtype", After(source))
                => IntoStr(out.res.v) = After(source)
             /\ ~RendersVerbatim("subtype", After(source))
                => IntoStr(out.res.v) = AsStr("subtype", FromStr("subtype", After(source)).v)

\* the subtype of a parsed "t/s" read back in the registry's spelling, which
\* differs from the text written
C15_Witness ==
    /\ out.op = "subtype"
    /\ OneSlashOnly(source)
    /\ out.res.tag = "Ok"
    /\ out.res.v.name = "Interned"
    /\ IntoStr(out.res.v) # After(source)
    /\ SameLetters(IntoStr(out.res.v), After(source))

\* the constants of the database lines that list an extension spelled as
\* ext in some letter case, in the order of the database
RegistryGuess(ext) ==
    LET Lists(mime) ==
            ~Skipped(mime)
            /\ \E j \in 1..Len(mime.extensions) : SameLetters(mime.extensions[j], ext)
        lines == SelectSeq(MimeTypes, Lists)
    IN [i \in 1..Len(lines) |-> Constant(lines[i])]

\* C16: for an extension of the registry, in any ASCII letter case, guess
\* returns the registry's non-empty ordered sequence of constants, the same
\* for every case variant; for any other extension it returns the empty
\* sequence, and never an error.
C16_GuessIsTotalIgnoringCase ==
    out.op = "guess"
    => /\ out.res.tag = "Ok"
       /\ out.res.v = RegistryGuess(out.arg)
       /\ out.res.v = Guess(MakeAsciiLowercase(out.arg))
       /\ out.res.v = Guess(UpperText(out.arg))
       /\ (\E key \in GuessKeys : SameLetters(key, out.arg)) <=> out.res.v # <<>>

\* "aX" guessed as the two constants a/Ab and a/b+x, in that order
C16_Witness ==
    /\ out.op = "guess"
    /\ out.arg \notin GuessKeys
    /\ Len(out.res.v) = 2
    /\ out.res.v[1] = Constant(MimeTypes[1])
    /\ out.res.v[2] = Constant(MimeTypes[2])

\* C17: a string of at most 128 bytes is folded in the fixed buffer and
\* hashed; a string of more than 128 bytes is folded in dynamic storage and
\* hashed in full when dynamic storage is available, and hashing aborts when
\* it is not; the boundary applies to each folded string of a value (type,
\* subtype, suffix, each parameter key) on its own.
C17_HashBoundary ==
    /\ out.op = "hash_ignore_case"
       => IF Len(out.arg) <= 128
          THEN /\ out.res.tag = "Ok"
               /\ out.res.storage = "stack"
               /\ out.res.v = MakeAsciiLowercase(out.arg) \o <<StrHashEnd>>
          ELSE IF out.alloc
          THEN /\ out.res.tag = "Ok"
               /\ out.res.storage = "heap"
               /\ Len(out.res.v) = Len(out.arg) + 1
               /\ out.res.v = MakeAsciiLowercase(out.arg) \o <<StrHashEnd>>
          ELSE out.res.tag = "Panic"
    /\ out.op = "hash_long"
       => /\ out.res.tag = "Ok"
          /\ out.res.v = MakeAsciiLowercase(IntoStr(out.arg.ty)) \o <<StrHashEnd>>
                         \o MakeAsciiLowercase(IntoStr(out.arg.subtype)) \o <<StrHashEnd>>
                         \o <<1>> \o MakeAsciiLowercase(IntoStr(out.arg.suffix.val)) \o <<StrHashEnd>>
                         \o MakeAsciiLowercase(out.arg.parameters[1][1]) \o <<StrHashEnd>>
                         \o out.arg.parameters[1][2] \o <<StrHashEnd>>

\* a string of 129 bytes folded on the heap and hashed in full
C17_Witness ==
    /\ out.op = "hash_ignore_case"
    /\ Len(out.arg) = 129
    /\ out.alloc
    /\ out.res.tag = "Ok"
    /\ out.res.storage = "heap"
    /\ Len(out.res.v) = 130
    /\ out.res.v # out.arg \o <<StrHashEnd>>

\* C18: every accessor returns a result, without failing, on every value
\* that parse returned successfully, and parameters() yields one pair per
\* ';'-separated segment after the first ';'.
C18_AccessorsNeverFail ==
    (value.tag = "Ok" /\ source # <<>>)
    => /\ out.op \in {"type", "subtype", "suffix", "parameters"} => out.res.tag = "Ok"
       /\ (out.op = "parameters" /\ Has(source, Semicolon))
          => Len(out.res.v) = Len(SegmentsOf(source))

\* the members of the registry of ns that spell text in some letter case
Spelled(ns, text) == {i \in 1..Len(Registry(ns)) : SameLetters(Registry(ns)[i], text)}

\* C19: a name constructed from text is Interned(id) iff the registry of
\* its namespace holds the text in some letter case, else Dynamic(text); an
\* Interned name renders as the registry's canonical spelling, a Dynamic
\* name as the original text; and the name equals its source text ignoring
\* ASCII case.
C19_NameConstructionAndRendering ==
    out.op = "name_new"
    => /\ out.res.name = "Interned" <=> Spelled(out.ns, out.arg) # {}
       /\ out.res.name = "Interned"
          => /\ out.res.id \in Spelled(out.ns, out.arg)
             /\ out.str = Registry(out.ns)[out.res.id]
       /\ out.res.name # "Interned"
          => /\ out.res = Dynamic(out.ns, out.arg)
             /\ out.str = out.arg
       /\ out.eq

\* "AB" constructed as the subtype Ab and rendered "Ab"
C19_Witness ==
    /\ out.op = "name_new"
    /\ out.res.name = "Interned"
    /\ out.str # out.arg
    /\ Len(out.arg) = 2
    /\ out.eq

\* the comparison closures of ==
EqOps == {"eq_type", "eq_subtype", "eq_suffix", "eq_params"}

\* the fields of value and other compared by the closure op match
FieldMatches(op) ==
    CASE op = "eq_type" -> NameEq(TypeName(value.v).v, TypeName(other.v).v)
      [] op = "eq_subtype" -> NameEq(SubtypeName(value.v).v, SubtypeName(other.v).v)
      [] op = "eq_suffix" -> OptionNameEq(SuffixName(value.v).v, SuffixName(other.v).v)

\* C20: == evaluates type, subtype, suffix and parameters in this order
\* and stops at the first mismatch: the subtype is evaluated only right
\* after the types matched, the suffix only right after the subtypes
\* matched, the parameters only right after the suffixes matched (absent
\* matching only absent), and nothing is evaluated after a mismatch; the
\* outcome of the last closure evaluated is the outcome of ==.
C20_EqShortCircuits ==
    [][/\ out'.op = "eq_subtype"
          => out.op = "eq_type" /\ FieldMatches("eq_type")
       /\ out'.op = "eq_suffix"
          => out.op = "eq_subtype" /\ FieldMatches("eq_type") /\ FieldMatches("eq_subtype")
       /\ out'.op = "eq_params"
          => /\ out.op = "eq_suffix"
             /\ FieldMatches("eq_type") /\ FieldMatches("eq_subtype")
             /\ FieldMatches("eq_suffix")
             /\ SuffixName(value.v).v.some <=> SuffixName(other.v).v.some
       /\ (out.op \in EqOps /\ out.res # Ok(TRUE)) => out'.op \notin EqOps
       /\ (out'.op \in EqOps /\ (out'.res # Ok(TRUE) \/ out'.op = "eq_params"))
          => out'.res = MimeEq(value.v, other.v)]_vars

\* the types differ, the subtypes and parameters differ too: false after
\* the first closure
C20_Witness ==
    /\ out.op = "eq_type"
    /\ out.res = Ok(FALSE)
    /\ ~FieldMatches("eq_subtype")
    /\ value.v.repr = "Buffer"
    /\ other.v.repr = "Parts"
    /\ other.v.parameters # <<>>

\* C21: the ordering agrees with equality. For every two values, of either
\* shape, cmp and == end the same way (both return or both abort); when they
\* return, cmp is Equal exactly when == is true; and partial_cmp is
\* Some(cmp) whenever cmp returns.
C21_CmpAgreesWithEq ==
    out.op = "cmp" =>
        LET eq == MimeEq(value.v, other.v)
        IN /\ out.res.tag = eq.tag
           /\ out.res.tag = "Ok" => ((out.res.v = Equal) <=> eq.v)
           /\ out.res.tag = "Ok" => out.partial = Ok(Some(out.res.v))

\* C21: a constructed value and a parsed one, spelled in different letter
\* case, compare Equal and are equal
C21_Witness ==
    /\ out.op = "cmp"
    /\ value.v.repr = "Parts"
    /\ other.v.repr = "Buffer"
    /\ Display(value.v) # Ok(otherSource)
    /\ out.res = Ok(Equal)
    /\ out.partial = Ok(Some(Equal))
    /\ MimeEq(value.v, other.v) = Ok(TRUE)

\* C21: a value whose accessor aborts is compared: cmp and == both abort
C21_WitnessAborts ==
    /\ out.op = "cmp"
    /\ out.res = Panic
    /\ MimeEq(value.v, other.v) = Panic

\* C22: name ordering is shape-independent. Any two members of a generated
\* registry compare as Interned names (by position) the way their spellings
\* compare as Dynamic names (ignoring ASCII letter case, shorter first).
C22_OrderIsShapeIndependent ==
    out.op = "name_cmp" => out.res = out.resOther

\* C23: every Deferred (Buffer) value that parse produces holds offsets with
\* 0 < slash < semicolon < length of the text and, when a plus offset is
\* present, slash < plus < semicolon; a value that parse produces is Deferred
\* exactly when the input contains ';', and otherwise Resolved (Parts) with
\* an empty parameter sequence.
C23_DeferredOffsetsOrdered ==
    (out.op = "parse" /\ out.res.tag = "Ok") =>
        LET v == out.res.v
        IN /\ (v.repr = "Buffer") <=> Has(source, Semicolon)
           /\ v.repr = "Parts" => v.parameters = <<>>
           /\ v.repr = "Buffer" =>
                 /\ 0 < v.slash
                 /\ v.slash < v.semicolon
                 /\ v.semicolon < Len(v.buffer)
                 /\ v.plus.some => (v.slash < v.plus.val /\ v.plus.val < v.semicolon)

\* C23: the shape of the produced value alone: Deferred exactly when the
\* input contains ';', otherwise Resolved with no parameters
C23_ShapeFollowsSemicolon ==
    (out.op = "parse" /\ out.res.tag = "Ok") =>
        /\ (out.res.v.repr = "Buffer") <=> Has(source, Semicolon)
        /\ out.res.v.repr = "Parts" => out.res.v.parameters = <<>>

\* the string stops early against the value v: it is exactly the type of v,
\* or exactly "type/subtype" while v has a suffix or parameters, or the text
\* of v up to the end of its first parameter key
StopsEarly(v, string) ==
    LET text == Display(v).v
    IN \/ string = SubSeq(text, 1, First(text, Slash) - 1)
       \/ string = TypeSlashSubtype(text) /\ string # text
       \/ HasParameters(v) /\ string = SubSeq(text, 1, First(text, EqualsSign) - 1)

\* C24: comparing a value with a plain string returns true or false for
\* every string and never aborts; a string that stops early is reported as
\* not equal.
C24_EqStrNeverAborts ==
    out.op = "eq_str" =>
        /\ out.res \in {Ok(TRUE), Ok(FALSE)}
        /\ (Display(value.v).tag = "Ok" /\ StopsEarly(value.v, out.arg))
              => out.res = Ok(FALSE)

====
